---------------------------- MODULE Spec2Model ----------------------------
(***************************************************************************)
(* A model of ryanc_rst: the abbreviation tracker (abbr_state.py) and the  *)
(* roles and directives of ryanc_rst.py that keep or transform state: the  *)
(* tag stack, the ordinal role, attribute escaping, the asset writer and   *)
(* the script directive with its two minifier passes.                      *)
(*                                                                         *)
(* Python strings are modelled as sequences of one-character strings, so   *)
(* that slicing, splitting, parsing and escaping are computed, not assumed.*)
(***************************************************************************)
EXTENDS Integers, Sequences, FiniteSets, TLC

VARIABLES
    state,      \* AbbrState.state: (src, abbrKey) -> obj, a dict
    abbrLog,    \* the abbr calls made so far, each with what it returned
    tag_stack,  \* _tag_stack: the open tags, the latest last
    stackLast,  \* the latest push or pop role call and what it returned
    escCall,    \* the latest esc(s, attr) call, its result, and the result
                \* of esc applied to that result once more
    ordLast,    \* the latest ord role call and what it returned
    files,      \* the output tree: path -> the bytes of the file there
    fsWrites,   \* every open('wb') and write made, in order: path and bytes
    wfCalls,    \* the write_file calls made so far and the URL of each
    script      \* the running script directive: its position and locals

abbrVars == <<state, abbrLog>>

stackVars == <<tag_stack, stackLast>>

escVars == <<escCall>>

ordVars == <<ordLast>>

assetVars == <<files, fsWrites, wfCalls, script>>

vars ==
    <<state, abbrLog, tag_stack, stackLast, escCall, ordLast, files,
      fsWrites, wfCalls, script>>

\* Python's None, as a title argument or a missing result
None == "<None>"

\* ------------------------------------------------------------------------
\* Bounds and input sets
\* ------------------------------------------------------------------------

\* the number of AbbrState.get calls of one run
MaxCalls == 3

Docs == {"d1", "d2"}

\* "a" and "as" share the root "a"; "s" is the plural of the empty root;
\* the empty text is what abbr[-1] cannot index
Abbrs == {<< >>, <<"a">>, <<"a", "s">>, <<"s">>}

Titles == {"T1", "T2"}

\* the depth the tag stack may reach
MaxDepth == 3

\* role texts of push: tag names joined by commas; a trailing comma names
\* an empty tag
PushTexts ==
    {<<"a">>, <<"b">>, <<"a", ",", "b">>, <<"a", ",", "b", ",", "c">>,
     <<"b", ",">>}

\* the length of the strings esc is applied to
MaxEscLen == 3

\* characters esc treats specially, a letter and a digit
EscAlphabet == {"&", "#", ";", "a", "1", "<", ">", "\"", "'", " ", "="}

\* the attr argument: double-quoted, single-quoted, unquoted, text context
\* (None) and a style esc rejects
AttrStyles == {"\"", "'", "", None, "x"}

\* the numbers the ord role is given
MaxOrd == 120

\* the number of write_file calls of one run
MaxWrites == 2

\* the source documents, two of them with the same stem
Sources == {"content/post.rst", "pages/post.rst", "content/about.rst"}

\* byte strings: directive contents, minifier outputs, file contents
Payloads == {"a", "b"}

FileSuffixes == {".min.js"}

\* role texts of pop: everything, a count, and what int() rejects
PopTexts ==
    {<<"*">>, <<"0">>, <<"1">>, <<"2">>, <<"3">>, <<"4">>, <<"1", "0">>,
     <<"-", "1">>, <<"x">>}

\* ------------------------------------------------------------------------
\* AbbrState.get
\* ------------------------------------------------------------------------

\* abbr[-1] == 's'
Plural(abbr) == abbr[Len(abbr)] = "s"

TitleKey(abbr) == IF Plural(abbr) THEN "plural" ELSE "singular"

\* abbr[:-1] for a plural, abbr itself otherwise
AbbrKey(abbr) == IF Plural(abbr) THEN SubSeq(abbr, 1, Len(abbr) - 1) ELSE abbr

\* title is not None and titleKey in obj and title != obj[titleKey]
ConflictAnyPlurality(obj, titleKey, title) ==
    /\ title # None
    /\ \E k \in DOMAIN obj \ {"count"} : title # obj[k]

Conflict(obj, titleKey, title) ==
    /\ title # None
    /\ titleKey \in DOMAIN obj
    /\ title # obj[titleKey]

\* obj['count'] += 1
IncrForgotten(obj) == obj

Incr(obj) == [obj EXCEPT !["count"] = @ + 1]

\* the returned dict: count, abbr and the recorded title
SnapshotOfArgument(obj, abbr, titleKey, title) ==
    [outcome |-> "ok", count |-> obj["count"], abbr |-> abbr, title |-> title]

Snapshot(obj, abbr, titleKey, title) ==
    [outcome |-> "ok", count |-> obj["count"], abbr |-> abbr,
     title |-> obj[titleKey]]

\* what a call that returns None or raises hands back
NoResult(outcome, abbr) ==
    [outcome |-> outcome, count |-> -1, abbr |-> abbr, title |-> None]

\* the branch of a key that is in state: the new obj, or why there is none
ExistingAbsentCounts(obj, titleKey, title) ==
    IF Conflict(obj, titleKey, title)
    THEN [outcome |-> "error", obj |-> obj]
    ELSE IF titleKey \notin DOMAIN obj /\ title = None
         THEN [outcome |-> "absent", obj |-> Incr(obj)]
         ELSE [outcome |-> "ok",
               obj |-> Incr(IF titleKey \notin DOMAIN obj
                            THEN (titleKey :> title) @@ obj
                            ELSE obj)]

Existing(obj, titleKey, title) ==
    IF Conflict(obj, titleKey, title)
    THEN [outcome |-> "error", obj |-> obj]
    ELSE IF titleKey \notin DOMAIN obj /\ title = None
         THEN [outcome |-> "absent", obj |-> obj]
         ELSE [outcome |-> "ok",
               obj |-> Incr(IF titleKey \notin DOMAIN obj
                            THEN (titleKey :> title) @@ obj
                            ELSE obj)]

\* AbbrState.get(src, abbr, title): the state it leaves and what it returns
AbbrGet(st, src, abbr, title) ==
    IF Len(abbr) = 0
    THEN [state |-> st, result |-> NoResult("index_error", abbr)]
    ELSE LET titleKey == TitleKey(abbr)
             key == <<src, AbbrKey(abbr)>>
         IN  IF key \in DOMAIN st
             THEN LET r == Existing(st[key], titleKey, title)
                  IN  IF r.outcome = "ok"
                      THEN [state |-> [st EXCEPT ![key] = r.obj],
                            result |-> Snapshot(r.obj, abbr, titleKey, title)]
                      ELSE [state |-> [st EXCEPT ![key] = r.obj],
                            result |-> NoResult(r.outcome, abbr)]
             ELSE IF title = None
                  THEN [state |-> st, result |-> NoResult("absent", abbr)]
                  ELSE LET obj == (titleKey :> title) @@ [count |-> 0]
                       IN  [state |-> (key :> obj) @@ st,
                            result |-> Snapshot(obj, abbr, titleKey, title)]

\* abbr_role's choice of markup: the wrapped form for count 0, bare otherwise
Form(result) ==
    IF result.outcome # "ok" THEN "none"
    ELSE IF result.count = 0 THEN "annotated" ELSE "bare"

Get(src, abbr, title) ==
    /\ Len(abbrLog) < MaxCalls
    /\ LET r == AbbrGet(state, src, abbr, title)
       IN  /\ state' = r.state
           /\ abbrLog' = Append(abbrLog,
                 [src |-> src, abbr |-> abbr, arg |-> title,
                  outcome |-> r.result.outcome, count |-> r.result.count,
                  title |-> r.result.title, form |-> Form(r.result)])
    /\ UNCHANGED <<stackVars, escVars, ordVars, assetVars>>

AbbrInit ==
    /\ state = << >>
    /\ abbrLog = << >>

AbbrNext ==
    \E src \in Docs, abbr \in Abbrs, title \in Titles \cup {None} :
        Get(src, abbr, title)


\* ------------------------------------------------------------------------
\* The tag stack: push_role and pop_role
\* ------------------------------------------------------------------------

RECURSIVE SplitFrom(_, _, _, _)
\* str.split(sep), scanning s from position i with the piece cur begun
SplitFrom(s, sep, i, cur) ==
    IF i > Len(s) THEN <<cur>>
    ELSE IF s[i] = sep THEN <<cur>> \o SplitFrom(s, sep, i + 1, << >>)
    ELSE SplitFrom(s, sep, i + 1, Append(cur, s[i]))

Split(s, sep) == SplitFrom(s, sep, 1, << >>)

DigitValue ==
    [c \in {"0", "1", "2", "3", "4", "5", "6", "7", "8", "9"} |->
        CASE c = "0" -> 0 [] c = "1" -> 1 [] c = "2" -> 2 [] c = "3" -> 3
          [] c = "4" -> 4 [] c = "5" -> 5 [] c = "6" -> 6 [] c = "7" -> 7
          [] c = "8" -> 8 [] c = "9" -> 9]

IsDigits(s) == Len(s) > 0 /\ \A i \in 1..Len(s) : s[i] \in DOMAIN DigitValue

RECURSIVE DigitsValue(_)
DigitsValue(s) ==
    IF Len(s) = 0 THEN 0
    ELSE 10 * DigitsValue(SubSeq(s, 1, Len(s) - 1)) + DigitValue[s[Len(s)]]

\* int(text) of a decimal literal with an optional sign; anything else
\* raises ValueError
IntOk(text) ==
    \/ IsDigits(text)
    \/ Len(text) > 1 /\ text[1] \in {"-", "+"} /\ IsDigits(Tail(text))

ParseInt(text) ==
    IF IsDigits(text) THEN DigitsValue(text)
    ELSE IF text[1] = "-" THEN 0 - DigitsValue(Tail(text))
    ELSE DigitsValue(Tail(text))

\* f'<{tag}>' and f'</{tag}>'
OpenTag(tag) == <<"<">> \o tag \o <<">">>

CloseTag(tag) == <<"<", "/">> \o tag \o <<">">>

RECURSIVE PushLoop(_, _, _)
\* for tag in text.split(','): html += f'<{tag}>'; _tag_stack.append(tag)
PushLoop(stack, tags, html) ==
    IF tags = << >> THEN [stack |-> stack, html |-> html]
    ELSE PushLoop(Append(stack, Head(tags)), Tail(tags),
                  html \o OpenTag(Head(tags)))

\* list.pop(): the last element and the list without it
PopFirst(stack) == [tag |-> Head(stack), rest |-> Tail(stack)]

ListPop(stack) ==
    [tag |-> stack[Len(stack)], rest |-> SubSeq(stack, 1, Len(stack) - 1)]

RECURSIVE PopLoop(_, _, _)
\* for _ in range(n): html += f'</{_tag_stack.pop()}>'
\* pop() of the empty list raises IndexError, with the tags popped so far gone
PopLoop(stack, n, html) ==
    IF n <= 0 THEN [outcome |-> "ok", stack |-> stack, html |-> html]
    ELSE IF stack = << >>
         THEN [outcome |-> "IndexError", stack |-> stack, html |-> << >>]
         ELSE LET p == ListPop(stack)
              IN  PopLoop(p.rest, n - 1, html \o CloseTag(p.tag))

Push(text) ==
    LET r == PushLoop(tag_stack, Split(text, ","), << >>)
    IN  /\ Len(r.stack) <= MaxDepth
        /\ tag_stack' = r.stack
        /\ stackLast' = [op |-> "push", text |-> text, outcome |-> "ok",
                         html |-> r.html]
        /\ UNCHANGED <<abbrVars, escVars, ordVars, assetVars>>

Pop(text) ==
    /\ IF text # <<"*">> /\ ~IntOk(text)
       THEN /\ tag_stack' = tag_stack
            /\ stackLast' = [op |-> "pop", text |-> text,
                             outcome |-> "ValueError", html |-> << >>]
       ELSE LET n == IF text = <<"*">> THEN Len(tag_stack) ELSE ParseInt(text)
                r == PopLoop(tag_stack, n, << >>)
            IN  /\ tag_stack' = r.stack
                /\ stackLast' = [op |-> "pop", text |-> text,
                                 outcome |-> r.outcome, html |-> r.html]
    /\ UNCHANGED <<abbrVars, escVars, ordVars, assetVars>>

StackInit ==
    /\ tag_stack = << >>
    /\ stackLast = [op |-> "none", text |-> << >>, outcome |-> "ok",
                    html |-> << >>]

StackNext ==
    \/ \E text \in PushTexts : Push(text)
    \/ \E text \in PopTexts : Pop(text)


\* ------------------------------------------------------------------------
\* esc: escaping for text and for attribute values
\* ------------------------------------------------------------------------

Letters ==
    {"a", "b", "c", "d", "e", "f", "g", "h", "i", "j", "k", "l", "m", "n",
     "o", "p", "q", "r", "s", "t", "u", "v", "w", "x", "y", "z",
     "A", "B", "C", "D", "E", "F", "G", "H", "I", "J", "K", "L", "M", "N",
     "O", "P", "Q", "R", "S", "T", "U", "V", "W", "X", "Y", "Z"}

Alnum == Letters \cup DOMAIN DigitValue

\* the length of the longest run of [A-Za-z0-9] of s that starts at i
RECURSIVE AlnumRun(_, _)
AlnumRun(s, i) ==
    IF i <= Len(s) /\ s[i] \in Alnum THEN 1 + AlnumRun(s, i + 1) ELSE 0

\* the length of the match of (#|[A-Za-z0-9]+;) at position i of s, 0 for
\* no match
AttrRefLen(s, i) ==
    IF i <= Len(s) /\ s[i] = "#" THEN 1
    ELSE LET n == AlnumRun(s, i)
         IN  IF n > 0 /\ i + n <= Len(s) /\ s[i + n] = ";" THEN n + 1 ELSE 0

\* the length of the match of (#|[A-Za-z][0-9A-Za-z]) at position i of s
TextRefLen(s, i) ==
    IF i <= Len(s) /\ s[i] = "#" THEN 1
    ELSE IF i + 1 <= Len(s) /\ s[i] \in Letters /\ s[i + 1] \in Alnum THEN 2
    ELSE 0

RefLen(s, i, inAttr) == IF inAttr THEN AttrRefLen(s, i) ELSE TextRefLen(s, i)

AMP == <<"&", "a", "m", "p", ";">>

RECURSIVE SubAmp(_, _, _)
\* re.sub(r'&(...)', r'&amp;\1', s) from position i on: matches are taken
\* left to right and do not overlap
SubAmp(s, i, inAttr) ==
    IF i > Len(s) THEN << >>
    ELSE LET n == IF s[i] = "&" THEN RefLen(s, i + 1, inAttr) ELSE 0
         IN  IF n > 0
             THEN AMP \o SubSeq(s, i + 1, i + n) \o SubAmp(s, i + n + 1, inAttr)
             ELSE <<s[i]>> \o SubAmp(s, i + 1, inAttr)

RECURSIVE Replace(_, _, _)
\* s.replace(c, by) for a one-character c
Replace(s, c, by) ==
    IF s = << >> THEN << >>
    ELSE (IF Head(s) = c THEN by ELSE <<Head(s)>>) \o Replace(Tail(s), c, by)

\* the character reference &#<digits>; or &<name>;
Ref(body) == <<"&">> \o body \o <<";">>

\* the grave accent, U+0060, which a TLA+ string cannot hold
Backtick == "U+0060"

\* the replacements of the quoting style attr, after the & substitution
QuoteSkipped(s, attr) == s

Quote(s, attr) ==
    IF attr = "\"" THEN Replace(s, "\"", Ref(<<"#", "3", "4">>))
    ELSE IF attr = "'" THEN Replace(s, "'", Ref(<<"#", "3", "9">>))
    ELSE LET s1 == Replace(s, " ", Ref(<<"#", "3", "2">>))
             s2 == Replace(s1, "\"", Ref(<<"#", "3", "4">>))
             s3 == Replace(s2, "'", Ref(<<"#", "3", "9">>))
             s4 == Replace(s3, ">", Ref(<<"g", "t">>))
             s5 == Replace(s4, "=", Ref(<<"#", "6", "1">>))
         IN  Replace(s5, Backtick, Ref(<<"#", "9", "6">>))

\* esc raises ValueError for any other attr
EscOk(attr) == attr \in {None, "\"", "'", ""}

Esc(s, attr) ==
    LET s1 == IF attr # None
              THEN Quote(SubAmp(s, 1, TRUE), attr)
              ELSE SubAmp(s, 1, FALSE)
    IN  Replace(s1, "<", Ref(<<"l", "t">>))

\* all strings over alphabet of length at most n
RECURSIVE Strings(_, _)
Strings(alphabet, n) ==
    IF n = 0 THEN {<< >>}
    ELSE LET shorter == Strings(alphabet, n - 1)
         IN  shorter \cup {Append(t, c) : t \in shorter, c \in alphabet}

EscInputs == Strings(EscAlphabet, MaxEscLen)

NoEscCall ==
    [s |-> << >>, attr |-> None, outcome |-> "none", out |-> << >>,
     again |-> << >>, step |-> 0]

\* esc(s, attr)
EscCall(s, attr) ==
    /\ escCall.step = 0
    /\ escCall' = IF EscOk(attr)
                  THEN [s |-> s, attr |-> attr, outcome |-> "ok",
                        out |-> Esc(s, attr), again |-> << >>, step |-> 1]
                  ELSE [s |-> s, attr |-> attr, outcome |-> "ValueError",
                        out |-> << >>, again |-> << >>, step |-> 1]
    /\ UNCHANGED <<abbrVars, stackVars, ordVars, assetVars>>

\* esc(esc(s, attr), attr): the result of a call escaped once more
EscAgain ==
    /\ escCall.step = 1
    /\ escCall.outcome = "ok"
    /\ escCall' = [escCall EXCEPT !.again = Esc(escCall.out, escCall.attr),
                                  !.step = 2]
    /\ UNCHANGED <<abbrVars, stackVars, ordVars, assetVars>>

\* the caller is done with the result
EscDone ==
    /\ escCall.step > 0
    /\ escCall' = NoEscCall
    /\ UNCHANGED <<abbrVars, stackVars, ordVars, assetVars>>

EscInit == escCall = NoEscCall

EscNext ==
    \/ /\ escCall.step = 0
       /\ \E s \in EscInputs, attr \in AttrStyles : EscCall(s, attr)
    \/ EscAgain
    \/ EscDone

\* ------------------------------------------------------------------------
\* ord_role
\* ------------------------------------------------------------------------

\* text[-2:] and text[:-2]
LastTwo(text) ==
    IF Len(text) < 2 THEN text ELSE SubSeq(text, Len(text) - 1, Len(text))

ButLastTwo(text) ==
    IF Len(text) < 2 THEN << >> ELSE SubSeq(text, 1, Len(text) - 2)

Suffixes == {<<"s", "t">>, <<"n", "d">>, <<"r", "d">>, <<"t", "h">>}

\* if 11 >= end >= 13
TeenRange(end) == 11 <= end /\ end <= 13

Teen(end) == 11 >= end /\ end >= 13

\* the suffix computed for the number int(text)
ComputedSuffix(n) ==
    LET end == n % 100
    IN  IF Teen(end) THEN <<"t", "h">>
        ELSE LET e == end % 10
             IN  IF e = 1 THEN <<"s", "t">>
                 ELSE IF e = 2 THEN <<"n", "d">>
                 ELSE IF e = 3 THEN <<"r", "d">>
                 ELSE <<"t", "h">>

SUP(suffix) ==
    <<"<", "s", "u", "p", ">">> \o suffix \o <<"<", "/", "s", "u", "p", ">">>

\* ord_role(text): the suffix chosen and the markup returned
OrdRole(text) ==
    IF LastTwo(text) \in Suffixes
    THEN [text |-> text, outcome |-> "ok", suffix |-> LastTwo(text),
          html |-> Esc(ButLastTwo(text), None) \o SUP(LastTwo(text))]
    ELSE IF ~IntOk(text)
         THEN [text |-> text, outcome |-> "ValueError", suffix |-> << >>,
               html |-> << >>]
         ELSE LET suffix == ComputedSuffix(ParseInt(text))
              IN  [text |-> text, outcome |-> "ok", suffix |-> suffix,
                   html |-> Esc(text, None) \o SUP(suffix)]

DigitChar == [d \in 0..9 |-> CHOOSE c \in DOMAIN DigitValue : DigitValue[c] = d]

\* the decimal numeral of n
RECURSIVE Decimal(_)
Decimal(n) ==
    IF n < 10 THEN <<DigitChar[n]>>
    ELSE Append(Decimal(n \div 10), DigitChar[n % 10])

\* numerals, numerals that bear a suffix, and what int() rejects
OrdTexts ==
    {Decimal(n) : n \in 0..MaxOrd}
        \cup {<<"1", "s", "t">>, <<"1", "1", "t", "h">>, <<"n", "t", "h">>,
              <<"x">>, << >>}

Ord(text) ==
    /\ ordLast' = OrdRole(text)
    /\ UNCHANGED <<abbrVars, stackVars, escVars, assetVars>>

OrdInit ==
    ordLast = [text |-> << >>, outcome |-> "none", suffix |-> << >>,
               html |-> << >>]

OrdNext == \E text \in OrdTexts : Ord(text)


\* ------------------------------------------------------------------------
\* _Directive.write_file and Script.run
\* ------------------------------------------------------------------------

\* Path(source).stem
Stem ==
    [src \in Sources |->
        CASE src = "content/post.rst" -> "post"
          [] src = "pages/post.rst" -> "post"
          [] src = "content/about.rst" -> "about"]

\* sha256(data).hexdigest()[0:20]
Sha256Hex20 ==
    [data \in Payloads \cup {""} |->
        CASE data = "a" -> "ca978112ca1bbdcafac2"
          [] data = "b" -> "3e23e8160039594a3389"
          [] data = "" -> "e3b0c44298fc1c149afb"]

\* instance.settings['OUTPUT_PATH']
OUTPUT_DIR == "output"

\* the names write_file derives: the file's name, its URL, its directory
\* and its path under OUTPUT_DIR
Derived(src, suffix, data) ==
    LET d == Stem[src] \o "_"
        name == Sha256Hex20[data] \o suffix
    IN  [web |-> "/" \o d \o "/" \o name,
         aux |-> OUTPUT_DIR \o "/" \o d,
         path |-> OUTPUT_DIR \o "/" \o d \o "/" \o name]

\* with aux.joinpath(name).open('wb') as f: f.write(data)
\* the file is opened for writing and written whether or not it exists
WriteBytes(fs, path, data) ==
    [files |-> (path :> data) @@ fs, written |-> <<[path |-> path, data |-> data]>>]

\* write_file(suffix, data) for the document src: the file system and the
\* lists of writes and calls it leaves
WriteFile(src, suffix, data) ==
    LET n == Derived(src, suffix, data)
        w == WriteBytes(files, n.path, data)
    IN  /\ files' = w.files
        /\ fsWrites' = fsWrites \o w.written
        /\ wfCalls' = Append(wfCalls, [src |-> src, suffix |-> suffix,
                                        data |-> data, web |-> n.web])

NotRun == [ran |-> FALSE, input |-> "", rc |-> 0, stdout |-> ""]

Idle ==
    [pc |-> "idle", src |-> "", text |-> "", inline |-> FALSE,
     pass1 |-> NotRun, pass2 |-> NotRun, node |-> None, wrote |-> FALSE]

\* subprocess.run(..., check=True) raises CalledProcessError on a non-zero
\* exit status
Unchecked(rc) == FALSE

Raises(rc) == rc # 0

\* a directive other than script externalizes data
DirectiveWrites(src, suffix, data) ==
    /\ script.pc = "idle"
    /\ Len(wfCalls) < MaxWrites
    /\ WriteFile(src, suffix, data)
    /\ UNCHANGED <<script, abbrVars, stackVars, escVars, ordVars>>

\* Script.run begins: text = self.text_content()
ScriptStart(src, text, inline) ==
    /\ script.pc = "idle"
    /\ script' = [Idle EXCEPT !.pc = "pass1", !.src = src, !.text = text,
                              !.inline = inline]
    /\ UNCHANGED <<files, fsWrites, wfCalls, abbrVars, stackVars, escVars,
                   ordVars>>

\* ret = subprocess.run(args_pass1, input=text, capture_output=True,
\*                      check=True): terser exits with rc and prints stdout
ScriptPass1(rc, stdout) ==
    /\ script.pc = "pass1"
    /\ script' = [script EXCEPT
                     !.pass1 = [ran |-> TRUE, input |-> script.text,
                                rc |-> rc, stdout |-> stdout],
                     !.pc = IF Raises(rc) THEN "raised" ELSE "pass2"]
    /\ UNCHANGED <<files, fsWrites, wfCalls, abbrVars, stackVars, escVars,
                   ordVars>>

\* ret = subprocess.run(args_pass2, input=ret.stdout, capture_output=True,
\*                      check=True)
ScriptPass2(rc, stdout) ==
    /\ script.pc = "pass2"
    /\ script' = [script EXCEPT
                     !.pass2 = [ran |-> TRUE, input |-> script.pass1.stdout,
                                rc |-> rc, stdout |-> stdout],
                     !.pc = IF Raises(rc) THEN "raised" ELSE "emit"]
    /\ UNCHANGED <<files, fsWrites, wfCalls, abbrVars, stackVars, escVars,
                   ordVars>>

\* the inline script element, with the minified text in it
ScriptEmitInline ==
    /\ script.pc = "emit"
    /\ script.inline
    /\ script' = [script EXCEPT
                     !.pc = "returned",
                     !.node = "<script>" \o script.pass2.stdout
                                 \o "</script>"]
    /\ UNCHANGED <<files, fsWrites, wfCalls, abbrVars, stackVars, escVars,
                   ordVars>>

\* link = self.write_file('.min.js', ret.stdout) and the linking element
ScriptEmitLink ==
    /\ script.pc = "emit"
    /\ ~script.inline
    /\ Len(wfCalls) < MaxWrites
    /\ WriteFile(script.src, ".min.js", script.pass2.stdout)
    /\ script' = [script EXCEPT
                     !.pc = "returned",
                     !.wrote = TRUE,
                     !.node = "<script src=\""
                                 \o Derived(script.src, ".min.js",
                                            script.pass2.stdout).web
                                 \o "\" async></script>"]
    /\ UNCHANGED <<abbrVars, stackVars, escVars, ordVars>>

\* run has returned its node or raised; the directive is over
ScriptOver ==
    /\ script.pc \in {"returned", "raised"}
    /\ script' = Idle
    /\ UNCHANGED <<files, fsWrites, wfCalls, abbrVars, stackVars, escVars,
                   ordVars>>

AssetInit ==
    /\ files = << >>
    /\ fsWrites = << >>
    /\ wfCalls = << >>
    /\ script = Idle

AssetNext ==
    \/ \E src \in Sources, suffix \in FileSuffixes, data \in Payloads :
          DirectiveWrites(src, suffix, data)
    \/ \E src \in Sources, text \in Payloads, inline \in BOOLEAN :
          ScriptStart(src, text, inline)
    \/ \E rc \in {0, 1}, stdout \in Payloads \cup {""} : ScriptPass1(rc, stdout)
    \/ \E rc \in {0, 1}, stdout \in Payloads \cup {""} : ScriptPass2(rc, stdout)
    \/ ScriptEmitInline
    \/ ScriptEmitLink
    \/ ScriptOver

Init == AbbrInit /\ StackInit /\ EscInit /\ OrdInit /\ AssetInit

Next == AbbrNext \/ StackNext \/ EscNext \/ OrdNext \/ AssetNext

Spec == Init /\ [][Next]_vars

SpecAbbr == Init /\ [][AbbrNext]_vars

SpecStack == Init /\ [][StackNext]_vars

SpecEsc == Init /\ [][EscNext]_vars

SpecOrd == Init /\ [][OrdNext]_vars

SpecAsset == Init /\ [][AssetNext]_vars

\* ------------------------------------------------------------------------
\* Claims about the abbreviation tracker (checked under SpecAbbr)
\* ------------------------------------------------------------------------

Ok(i) == abbrLog[i].outcome = "ok"

\* calls i and j name the same (document, root)
SameKey(i, j) ==
    /\ Len(abbrLog[i].abbr) > 0
    /\ Len(abbrLog[j].abbr) > 0
    /\ abbrLog[i].src = abbrLog[j].src
    /\ AbbrKey(abbrLog[i].abbr) = AbbrKey(abbrLog[j].abbr)

\* ... and the same plurality
SameKeyPlurality(i, j) ==
    SameKey(i, j) /\ Plural(abbrLog[i].abbr) = Plural(abbrLog[j].abbr)

Latest(S) == CHOOSE j \in S : \A k \in S : k <= j

\* C1 as stated: the first successful resolution of a (document, root,
\* plurality) reports count 0 and each later one reports one more than the
\* previous successful resolution of that (document, root, plurality).
C1_CountPerPlurality ==
    \A i \in 1..Len(abbrLog) :
        Ok(i) =>
            LET prior == {j \in 1..(i - 1) : Ok(j) /\ SameKeyPlurality(i, j)}
            IN  IF prior = {} THEN abbrLog[i].count = 0
                ELSE abbrLog[i].count = abbrLog[Latest(prior)].count + 1

\* C1 amended: the count belongs to the (document, root): its first
\* successful resolution, of either plurality, reports 0, and each later one
\* reports one more than the previous successful resolution of that
\* (document, root), whichever plurality that was.
C1_CountPerRoot ==
    \A i \in 1..Len(abbrLog) :
        Ok(i) =>
            LET prior == {j \in 1..(i - 1) : Ok(j) /\ SameKey(i, j)}
            IN  IF prior = {} THEN abbrLog[i].count = 0
                ELSE abbrLog[i].count = abbrLog[Latest(prior)].count + 1

\* singular, plural, singular of one root: counts 0, 1, 2
C1_Witness ==
    /\ Len(abbrLog) = 3
    /\ \A i \in 1..3 : Ok(i) /\ abbrLog[i].src = "d1"
    /\ abbrLog[1].abbr = <<"a">> /\ abbrLog[1].count = 0
    /\ abbrLog[2].abbr = <<"a", "s">> /\ abbrLog[2].count = 1
    /\ abbrLog[3].abbr = <<"a">> /\ abbrLog[3].count = 2

\* the title recorded in state for call i's (document, root) and title key
\* tk, or None
Recorded(src, root, tk) ==
    IF <<src, root>> \in DOMAIN state /\ tk \in DOMAIN state[<<src, root>>]
    THEN state[<<src, root>>][tk]
    ELSE None

\* the title the log says is recorded: that of the first successful
\* resolution of (src, root) with title key tk, or None
FirstTitle(src, root, tk) ==
    LET S == {j \in 1..Len(abbrLog) :
                 /\ Ok(j)
                 /\ abbrLog[j].src = src
                 /\ AbbrKey(abbrLog[j].abbr) = root
                 /\ TitleKey(abbrLog[j].abbr) = tk}
    IN  IF S = {} THEN None
        ELSE abbrLog[CHOOSE j \in S : \A k \in S : j <= k].title

Roots == {AbbrKey(a) : a \in Abbrs \ {<< >>}}

\* C5: a call with an explicit title fails with the inconsistent-abbreviation
\* error exactly when an earlier successful call recorded a different title
\* for the same (document, root, plurality); the titles of the two
\* pluralities are kept apart: each stays the one its first resolution set.
C5_TitlesIndependent ==
    /\ \A i \in 1..Len(abbrLog) :
          (abbrLog[i].arg # None /\ Len(abbrLog[i].abbr) > 0) =>
              (abbrLog[i].outcome = "error"
                  <=> \E j \in 1..(i - 1) :
                          /\ Ok(j)
                          /\ SameKeyPlurality(i, j)
                          /\ abbrLog[j].title # abbrLog[i].arg)
    /\ \A i \in 1..Len(abbrLog) :
          abbrLog[i].arg = None => abbrLog[i].outcome # "error"
    /\ \A src \in Docs, root \in Roots, tk \in {"singular", "plural"} :
          Recorded(src, root, tk) = FirstTitle(src, root, tk)

\* singular T1 and plural T2 recorded, then singular with T2 fails, though T2
\* is the plural's title, and plural T2 is still recorded
C5_Witness ==
    /\ Len(abbrLog) = 3
    /\ abbrLog[1].abbr = <<"a">> /\ abbrLog[1].arg = "T1" /\ Ok(1)
    /\ abbrLog[2].abbr = <<"a", "s">> /\ abbrLog[2].arg = "T2" /\ Ok(2)
    /\ abbrLog[3].abbr = <<"a">> /\ abbrLog[3].arg = "T2"
    /\ abbrLog[3].outcome = "error"
    /\ \A i \in 1..3 : abbrLog[i].src = "d1"
    /\ Recorded("d1", <<"a">>, "plural") = "T2"
    /\ Recorded("d1", <<"a">>, "singular") = "T1"

\* C6: every successful resolution of one (document, root, plurality)
\* returns the same title, and at most one resolution of a (document, root)
\* gets count 0, the annotated form.
C6_SameTitleOneAnnotation ==
    /\ \A i, j \in 1..Len(abbrLog) :
          (Ok(i) /\ Ok(j) /\ SameKeyPlurality(i, j))
              => abbrLog[i].title = abbrLog[j].title
    /\ \A i, j \in 1..Len(abbrLog) :
          (Ok(i) /\ Ok(j) /\ SameKey(i, j)
             /\ abbrLog[i].form = "annotated" /\ abbrLog[j].form = "annotated")
              => i = j
    /\ \A i \in 1..Len(abbrLog) :
          Ok(i) => (abbrLog[i].form = "annotated" <=> abbrLog[i].count = 0)

\* defined with a title, then looked up twice without one: same title, one
\* annotated form
C6_Witness ==
    /\ Len(abbrLog) = 3
    /\ \A i \in 1..3 :
          Ok(i) /\ abbrLog[i].src = "d1" /\ abbrLog[i].abbr = <<"a">>
             /\ abbrLog[i].title = "T1"
    /\ abbrLog[1].arg = "T1" /\ abbrLog[2].arg = None /\ abbrLog[3].arg = None
    /\ abbrLog[1].form = "annotated"
    /\ abbrLog[2].form = "bare" /\ abbrLog[3].form = "bare"

\* C10: a call that returns absent or raises the inconsistent-abbreviation
\* error leaves AbbrState.state as it was, for every key.
C10_FailedGetChangesNothing ==
    [][(abbrLog' # abbrLog
          /\ abbrLog'[Len(abbrLog')].outcome \in {"absent", "error"})
        => state' = state]_vars

\* an absent and an error result after a record was created
C10_Witness ==
    /\ Len(abbrLog) = 3
    /\ Ok(1)
    /\ abbrLog[2].outcome = "absent" /\ SameKey(1, 2)
    /\ abbrLog[3].outcome = "error" /\ SameKey(1, 3)
    /\ state # << >>

\* ------------------------------------------------------------------------
\* Claims about the tag stack (checked under SpecStack)
\* ------------------------------------------------------------------------

\* the closing tags of the top n entries of stack, the top one first
RECURSIVE ClosingTopDown(_, _)
ClosingTopDown(stack, n) ==
    IF n = 0 THEN << >>
    ELSE CloseTag(stack[Len(stack)])
            \o ClosingTopDown(SubSeq(stack, 1, Len(stack) - 1), n - 1)

\* the step just taken was the call stackLast' describes
PopCalled(text) == stackLast'.op = "pop" /\ stackLast'.text = text

\* C2: pop_role with a number above the depth of the stack fails with a
\* stack underflow error and leaves the tag stack as it was.
C2_UnderflowLeavesStack ==
    [][\A text \in PopTexts :
          (PopCalled(text) /\ IntOk(text) /\ ParseInt(text) > Len(tag_stack))
              => (stackLast'.outcome = "IndexError" /\ tag_stack' = tag_stack)
      ]_vars

\* C7: the stack is LIFO: push appends the tags of its text in their order,
\* a pop of n open tags emits the closing tags of the n latest pushes, the
\* latest first, and removes exactly those; a pop of everything closes all
\* open tags in reverse push order and empties the stack; push a,b,c and
\* pop all gives c,b,a.
C7_Lifo ==
    [][/\ stackLast'.op = "push"
            => /\ tag_stack' = tag_stack \o Split(stackLast'.text, ",")
               /\ Len(tag_stack') = Len(tag_stack)
                     + 1 + Cardinality({i \in 1..Len(stackLast'.text) :
                                           stackLast'.text[i] = ","})
       /\ PopCalled(<<"*">>)
            => /\ stackLast'.outcome = "ok"
               /\ tag_stack' = << >>
               /\ stackLast'.html = ClosingTopDown(tag_stack, Len(tag_stack))
       /\ \A text \in PopTexts :
            (PopCalled(text) /\ IntOk(text) /\ ParseInt(text) >= 0
               /\ ParseInt(text) <= Len(tag_stack))
                => /\ stackLast'.outcome = "ok"
                   /\ stackLast'.html = ClosingTopDown(tag_stack, ParseInt(text))
                   /\ tag_stack' = SubSeq(tag_stack, 1,
                                          Len(tag_stack) - ParseInt(text))
       /\ (PopCalled(<<"*">>) /\ tag_stack = <<<<"a">>, <<"b">>, <<"c">>>>)
            => stackLast'.html =
                  <<"<", "/", "c", ">", "<", "/", "b", ">", "<", "/", "a", ">">>
      ]_vars

\* a pop of everything has just closed c, b, a, in that order
C7_Witness ==
    /\ stackLast.op = "pop"
    /\ stackLast.text = <<"*">>
    /\ stackLast.html =
          <<"<", "/", "c", ">", "<", "/", "b", ">", "<", "/", "a", ">">>
    /\ tag_stack = << >>

\* ------------------------------------------------------------------------
\* Claims about ord_role (checked under SpecOrd)
\* ------------------------------------------------------------------------

\* the suffix of the ordinal of n by the 11-13 rule
OrdinalSuffix(n) ==
    IF n % 100 \in 11..13 THEN <<"t", "h">>
    ELSE CASE n % 10 = 1 -> <<"s", "t">>
           [] n % 10 = 2 -> <<"n", "d">>
           [] n % 10 = 3 -> <<"r", "d">>
           [] OTHER -> <<"t", "h">>

\* C4: for a numeral without a suffix ord_role emits th when the value mod
\* 100 is in 11..13 and otherwise st, nd, rd or th by the value mod 10.
C4_OrdinalSuffix ==
    (ordLast.outcome = "ok" /\ IsDigits(ordLast.text))
        => ordLast.suffix = OrdinalSuffix(ParseInt(ordLast.text))

\* ------------------------------------------------------------------------
\* Claims about esc (checked under SpecEsc)
\* ------------------------------------------------------------------------

Quoting == {"\"", "'", ""}

Has(s, c) == \E i \in 1..Len(s) : s[i] = c

\* the quote characters of a quoting style: its own, or both when unquoted
QuoteChars(attr) ==
    IF attr = "\"" THEN {"\""} ELSE IF attr = "'" THEN {"'"}
    ELSE {"\"", "'"}

NoRawSpecials(out, attr) ==
    /\ ~Has(out, "<")
    /\ \A c \in QuoteChars(attr) : ~Has(out, c)

\* C9 as stated: escaping for an attribute is idempotent and its output has
\* no raw < and no raw quote character of the style.
C9_EscIdempotent ==
    (escCall.step = 2 /\ escCall.attr \in Quoting)
        => /\ escCall.again = escCall.out
           /\ NoRawSpecials(escCall.out, escCall.attr)

\* s needs no escaping for the style attr: it has no <, no character the
\* style replaces, and no & that begins &# or &<alphanumerics>;
Safe(s, attr) ==
    /\ ~Has(s, "<")
    /\ \A c \in QuoteChars(attr) : ~Has(s, c)
    /\ attr = "" => \A c \in {" ", ">", "=", Backtick} : ~Has(s, c)
    /\ \A i \in 1..Len(s) :
          s[i] = "&" =>
              /\ ~(i < Len(s) /\ s[i + 1] = "#")
              /\ ~\E j \in (i + 2)..Len(s) :
                     /\ s[j] = ";"
                     /\ \A k \in (i + 1)..(j - 1) : s[k] \in Alnum

\* C9 amended: the output of escaping for an attribute has no raw < and no
\* raw quote character of the style; an input that needs no escaping is
\* returned unchanged, and escaping twice gives the same as escaping once
\* exactly for those inputs: the second pass escapes the & of every
\* character reference the first one wrote.
C9_EscFixedPoints ==
    (escCall.step = 2 /\ escCall.attr \in Quoting)
        => /\ NoRawSpecials(escCall.out, escCall.attr)
           /\ NoRawSpecials(escCall.again, escCall.attr)
           /\ Safe(escCall.s, escCall.attr) <=> escCall.out = escCall.s
           /\ escCall.again = escCall.out <=> escCall.out = escCall.s

\* a"< escaped for a double-quoted attribute, and escaped again
C9_Witness ==
    /\ escCall.step = 2
    /\ escCall.attr = "\""
    /\ escCall.s = <<"a", "\"", "<">>
    /\ escCall.out = <<"a", "&", "#", "3", "4", ";", "&", "l", "t", ";">>
    /\ escCall.again # escCall.out

\* ------------------------------------------------------------------------
\* Claims about write_file and the script directive (checked under
\* SpecAsset)
\* ------------------------------------------------------------------------

\* the writes made to the file that call i of write_file names
WritesFor(i) ==
    {k \in 1..Len(fsWrites) :
        fsWrites[k].path = Derived(wfCalls[i].src, wfCalls[i].suffix,
                                   wfCalls[i].data).path}

\* C3: two write_file calls with the same payload, suffix and source stem
\* return the same URL and make one physical write between them: the second
\* finds the file and writes nothing.
C3_OneWritePerAsset ==
    \A i, j \in 1..Len(wfCalls) :
        (/\ i < j
         /\ wfCalls[i].data = wfCalls[j].data
         /\ wfCalls[i].suffix = wfCalls[j].suffix
         /\ Stem[wfCalls[i].src] = Stem[wfCalls[j].src])
            => /\ wfCalls[i].web = wfCalls[j].web
               /\ Cardinality(WritesFor(i)) = 1

\* C8: pass 2 runs only after pass 1 succeeded and reads pass 1's output;
\* the asset is written and the node made only after both passes succeeded;
\* a failed pass raises, runs nothing further, writes no file and returns no
\* node.
C8_PassesInSequence ==
    /\ script.pass1.ran => script.pass1.input = script.text
    /\ script.pc = "pass2" => script.pass1.ran /\ script.pass1.rc = 0
    /\ script.pass2.ran
          => /\ script.pass1.ran /\ script.pass1.rc = 0
             /\ script.pass2.input = script.pass1.stdout
    /\ script.pc \in {"emit", "returned"}
          => /\ script.pass1.ran /\ script.pass1.rc = 0
             /\ script.pass2.ran /\ script.pass2.rc = 0
    /\ script.pc \in {"pass1", "pass2", "emit", "raised"}
          => script.node = None /\ ~script.wrote
    /\ script.pc = "raised"
          <=> \/ script.pass1.ran /\ script.pass1.rc # 0
              \/ script.pass2.ran /\ script.pass2.rc # 0
    /\ script.pc = "returned"
          => /\ script.node # None
             /\ script.wrote <=> ~script.inline
             /\ script.wrote
                   => /\ wfCalls[Len(wfCalls)].data = script.pass2.stdout
                      /\ wfCalls[Len(wfCalls)].src = script.src

\* after a run that wrote its asset, a run whose first pass succeeded and
\* whose second pass failed: it has raised and written nothing
C8_Witness ==
    /\ script.pc = "raised"
    /\ script.text = "a"
    /\ script.pass1.rc = 0 /\ script.pass1.stdout = "b"
    /\ script.pass2.ran /\ script.pass2.rc = 1
    /\ script.pass2.input = "b"
    /\ ~script.inline
    /\ Len(wfCalls) = 1 /\ Len(fsWrites) = 1

=============================================================================
